---------------------------- MODULE Spec2Model ----------------------------
(***************************************************************************)
(* Model of illumeasure.py: the T-10A illuminance meter protocol engine    *)
(* (classes FtdiContext, Messenger, Protocol) and the callers that drive   *)
(* it.                                                                     *)
(*                                                                         *)
(* Python strings are sequences of one-character strings; the control      *)
(* characters are written by name ("STX" is "\x02", "ETX" is "\x03", "CR"  *)
(* is "\x0D", "LF" is "\x0A").  A Python value that may be an int or a str *)
(* is a record [t, i, s] (PyInt, PyStr).  A call returns a record          *)
(* [exc, val]: exc is "none" when the call returns val, and the exception  *)
(* class name when it raises.                                              *)
(***************************************************************************)
EXTENDS Integers, Sequences, FiniteSets, TLC

(***************************************************************************)
(* Characters                                                              *)
(***************************************************************************)
Digits == {"0", "1", "2", "3", "4", "5", "6", "7", "8", "9"}

HexLower == {"a", "b", "c", "d", "e", "f"}

HexUpper == {"A", "B", "C", "D", "E", "F"}

Controls == {"STX", "ETX", "CR", "LF"}

\* str.strip() / int() treat these as white space
Whitespace == {" ", "CR", "LF"}

\* ord(c)
Ord(c) ==
  CASE c = "STX" -> 2 [] c = "ETX" -> 3 [] c = "LF" -> 10 [] c = "CR" -> 13
    [] c = " " -> 32 [] c = "+" -> 43 [] c = "-" -> 45
    [] c = "0" -> 48 [] c = "1" -> 49 [] c = "2" -> 50 [] c = "3" -> 51
    [] c = "4" -> 52 [] c = "5" -> 53 [] c = "6" -> 54 [] c = "7" -> 55
    [] c = "8" -> 56 [] c = "9" -> 57
    [] c = "A" -> 65 [] c = "B" -> 66 [] c = "C" -> 67 [] c = "D" -> 68
    [] c = "E" -> 69 [] c = "F" -> 70
    [] c = "a" -> 97 [] c = "b" -> 98 [] c = "c" -> 99 [] c = "d" -> 100
    [] c = "e" -> 101 [] c = "f" -> 102

\* value of one digit character in int(s) / int(s, 16); -1 when it is none
DigitVal(c, base) ==
  CASE c \in Digits -> Ord(c) - 48
    [] c \in HexLower /\ base = 16 -> Ord(c) - 87
    [] c \in HexUpper /\ base = 16 -> Ord(c) - 55
    [] OTHER -> -1

\* the character of one hex digit, as "%x" prints it
HexChar(n) ==
  CASE n = 0 -> "0" [] n = 1 -> "1" [] n = 2 -> "2" [] n = 3 -> "3"
    [] n = 4 -> "4" [] n = 5 -> "5" [] n = 6 -> "6" [] n = 7 -> "7"
    [] n = 8 -> "8" [] n = 9 -> "9" [] n = 10 -> "a" [] n = 11 -> "b"
    [] n = 12 -> "c" [] n = 13 -> "d" [] n = 14 -> "e" [] n = 15 -> "f"

\* s[a:b] of Python (0-indexed, end-exclusive, clipped to the string)
Slice(s, a, b) ==
  LET lo == IF a > Len(s) THEN Len(s) ELSE a
      hi == IF b > Len(s) THEN Len(s) ELSE b
  IN  IF hi <= lo THEN << >> ELSE SubSeq(s, lo + 1, hi)

(***************************************************************************)
(* Python values and call outcomes                                         *)
(***************************************************************************)
PyInt(n) == [t |-> "int", i |-> n, s |-> << >>]

PyStr(s) == [t |-> "str", i |-> 0, s |-> s]

Return(v) == [exc |-> "none", val |-> v]

Raise(e) == [exc |-> e, val |-> << >>]

\* r is the outcome of a statement: an exception it raises leaves the
\* function, otherwise the statements K that follow run on its value
Bind(r, K(_)) == IF r.exc # "none" THEN r ELSE K(r.val)

\* int(s) and int(s, 16) on a str: surrounding white space is stripped, one
\* sign is allowed, the rest must be one or more digits of the base
RECURSIVE LStrip(_)
LStrip(s) ==
  IF s # << >> /\ Head(s) \in Whitespace THEN LStrip(Tail(s)) ELSE s

RECURSIVE RStrip(_)
RStrip(s) ==
  IF s # << >> /\ s[Len(s)] \in Whitespace
    THEN RStrip(SubSeq(s, 1, Len(s) - 1)) ELSE s

RECURSIVE DigitsValue(_, _, _)
DigitsValue(s, base, acc) ==
  IF s = << >> THEN acc
  ELSE DigitsValue(Tail(s), base, (acc * base) + DigitVal(Head(s), base))

PyIntParse(str, base) ==
  LET s    == RStrip(LStrip(str))
      neg  == s # << >> /\ Head(s) = "-"
      body == IF s # << >> /\ Head(s) \in {"+", "-"} THEN Tail(s) ELSE s
  IN  IF body = << >> \/ \E k \in 1..Len(body) : DigitVal(body[k], base) < 0
        THEN Raise("ValueError")
        ELSE Return(IF neg THEN 0 - DigitsValue(body, base, 0)
                           ELSE DigitsValue(body, base, 0))

\* "%02d" % n for an int n
RECURSIVE DecDigits(_)
DecDigits(n) ==
  IF n < 10 THEN << HexChar(n) >>
  ELSE DecDigits(n \div 10) \o << HexChar(n % 10) >>

Format02d(n) ==
  IF n < 0 THEN << "-" >> \o DecDigits(0 - n)
  ELSE IF n < 10 THEN << "0" >> \o DecDigits(n)
  ELSE DecDigits(n)


(***************************************************************************)
(* class Messenger: frame codec                                            *)
(***************************************************************************)
\* __messageLengthShort
messageLengthShort == 14

\* __messageLengthLong
messageLengthLong == 32

\* x ^ y on non-negative integers
RECURSIVE BitXor(_, _)
BitXor(x, y) ==
  IF x = 0 /\ y = 0 THEN 0
  ELSE (((x % 2) + (y % 2)) % 2) + (2 * BitXor(x \div 2, y \div 2))

\* reduce(lambda x, y: x ^ y, map(ord, i)) for a non-empty i
RECURSIVE XorReduce(_, _)
XorReduce(acc, i) ==
  IF i = << >> THEN acc ELSE XorReduce(BitXor(acc, Ord(Head(i))), Tail(i))

\* "%02x" % res
Format02x(res) ==
  IF res < 256 THEN << HexChar(res \div 16), HexChar(res % 16) >>
  ELSE << HexChar(res \div 256), HexChar((res \div 16) % 16),
         HexChar(res % 16) >>

\* the body of computeBcc with the format "%2x", which pads with a space
computeBccSpacePadded(i) ==
  IF i = << >> THEN Raise("TypeError")
  ELSE IF XorReduce(Ord(Head(i)), Tail(i)) < 16
    THEN Return(<< " ", HexChar(XorReduce(Ord(Head(i)), Tail(i))) >>)
    ELSE Return(Format02x(XorReduce(Ord(Head(i)), Tail(i))))

\* The body of computeBcc run on the string i: reduce() of an empty sequence
\* without an initial value is a TypeError.
computeBccBody(i) ==
  IF i = << >> THEN Raise("TypeError")
  ELSE Return(Format02x(XorReduce(Ord(Head(i)), Tail(i))))

\* computeBcc is declared in the class body with the single parameter i and
\* no staticmethod decorator.  args is the tuple of positional arguments a
\* call passes: Messenger.computeBcc(span) passes <<span>>, while the calls
\* self.computeBcc(bccable) of lines 103 and 117 go through the instance, so
\* Python binds it as the first argument and passes <<self, bccable>>, one
\* more than the function takes.
computeBcc(args) ==
  IF Len(args) # 1 THEN Raise("TypeError") ELSE computeBccBody(args[1])

\* the Messenger instance
self == "self"

\* messageEncodeShort: "%02d" % receptorHead is a TypeError for a str.
messageEncodeShort(receptorHead, command, parameter) ==
  IF receptorHead.t # "int" THEN Raise("TypeError")
  ELSE Bind(Return(Format02d(receptorHead.i) \o command \o parameter
                     \o << "ETX" >>), LAMBDA bccable :
         Bind(computeBcc(<< self, bccable >>), LAMBDA bccResult :
           Return(<< "STX" >> \o bccable \o bccResult \o << "CR", "LF" >>)))

\* __assertBcc: returns None or raises
assertBcc(bccable, actualBcc, i) ==
  Bind(computeBcc(<< self, bccable >>), LAMBDA expectedBcc :
    Bind(PyIntParse(actualBcc, 16), LAMBDA actual :
      Bind(PyIntParse(expectedBcc, 16), LAMBDA expected :
        IF actual # expected THEN Raise("BCCException") ELSE Return("None"))))

\* messageDecodeShort: (receptorHead, command, parameter)
messageDecodeShort(i) ==
  Bind(assertBcc(Slice(i, 1, 10), Slice(i, 10, 12), i), LAMBDA none :
    Bind(PyIntParse(Slice(i, 1, 3), 10), LAMBDA receptorHead :
      Return(<< PyInt(receptorHead), Slice(i, 3, 5), Slice(i, 5, 9) >>)))

\* A decoded reading: None, or the number m * 10^e.  For e >= 0 Python
\* computes an int, for e < 0 the float nearest to m * 10^e; the model
\* keeps the decimal m * 10^e itself.
NoReading == [kind |-> "None", m |-> 0, e |-> 0]

Reading(m, e) == [kind |-> IF e >= 0 THEN "int" ELSE "float", m |-> m, e |-> e]

SixSpaces == << " ", " ", " ", " ", " ", " " >>

\* messageDecodeLong.dataToNumber
dataToNumber(i) ==
  IF i = SixSpaces THEN Return(NoReading)
  ELSE Bind(PyIntParse(Slice(i, 1, 5), 10), LAMBDA v :
         IF Len(i) < 6 THEN Raise("IndexError")
         ELSE Bind(PyIntParse(<< i[6] >>, 10), LAMBDA digit :
                Return(Reading(IF i[1] = "-" THEN 0 - v ELSE v, digit - 4))))

\* messageDecodeLong: (receptorHead, command, status, (data1, data2, data3))
messageDecodeLong(i) ==
  Bind(assertBcc(Slice(i, 1, 28), Slice(i, 28, 30), i), LAMBDA none :
    Bind(PyIntParse(Slice(i, 1, 3), 10), LAMBDA receptorHead :
      Bind(dataToNumber(Slice(i, 9, 15)), LAMBDA data1 :
        Bind(dataToNumber(Slice(i, 15, 21)), LAMBDA data2 :
          Bind(dataToNumber(Slice(i, 21, 27)), LAMBDA data3 :
            Return(<< PyInt(receptorHead), Slice(i, 3, 5), Slice(i, 5, 9),
                      << data1, data2, data3 >> >>))))))

(***************************************************************************)
(* class Messenger: status classification                                  *)
(***************************************************************************)
\* checkStatus with the battery code "3" left out of line 203
checkStatusBatt1Only(decoded) ==
  LET status == decoded[3]
  IN  IF Len(status) < 2 THEN Raise("IndexError")
      ELSE LET errorCode == status[2]
           IN  IF errorCode = "1" THEN Raise("PowerOffError")
               ELSE IF errorCode = "2" THEN Raise("EEPROMError")
               ELSE IF errorCode = "3" THEN Raise("EEPROMError")
               ELSE IF errorCode = "5" THEN Raise("ValueError")
               ELSE IF Len(status) < 4 THEN Raise("IndexError")
               ELSE LET battCode == status[4]
                    IN  IF battCode = "1"
                          THEN Raise("LowBatteryError")
                          ELSE Return("None")

\* checkStatus: decoded[2] is the third field of the decoded tuple.  It
\* returns None or raises; nothing is raised for a code no branch names.
checkStatus(decoded) ==
  LET status == decoded[3]
  IN  IF Len(status) < 2 THEN Raise("IndexError")
      ELSE LET errorCode == status[2]
           IN  IF errorCode = "1" THEN Raise("PowerOffError")
               ELSE IF errorCode = "2" THEN Raise("EEPROMError")
               ELSE IF errorCode = "3" THEN Raise("EEPROMError")
               ELSE IF errorCode = "5" THEN Raise("ValueError")
               ELSE IF Len(status) < 4 THEN Raise("IndexError")
               ELSE LET battCode == status[4]
                    IN  IF battCode = "1" \/ battCode = "3"
                          THEN Raise("LowBatteryError")
                          ELSE Return("None")

(***************************************************************************)
(* Execution of one call on a connection.  x = [trace, w, r]: trace is the *)
(* sequence of effects so far (frames handed to ftdi.write_data, reads,    *)
(* sleeps, rows appended to a log), w the results the next ftdi.write_data *)
(* calls return and r the results [ret, d] the next ftdi.read_data calls   *)
(* return.  A call yields [exc, val, x].                                   *)
(***************************************************************************)
Ev(kind, data, n) == [kind |-> kind, data |-> data, n |-> n]

Done(v, x) == [exc |-> "none", val |-> v, x |-> x]

Fail(e, x) == [exc |-> e, val |-> << >>, x |-> x]

\* Bind for calls with effects: K runs on the value and the state reached
Then(r, K(_, _)) == IF r.exc # "none" THEN r ELSE K(r.val, r.x)

\* a call without effects made in state x
Pure(r, x) == [exc |-> r.exc, val |-> r.val, x |-> x]

\* time.sleep(t), t in tenths of a second
sleep(x, t) == [x EXCEPT !.trace = Append(@, Ev("sleep", << >>, t))]

\* FtdiContext.writeData: __assertFtdi raises for ret < 0
writeData(x, data) ==
  LET ret == Head(x.w)
      x1  == [x EXCEPT !.trace = Append(@, Ev("write", data, ret)),
                       !.w = Tail(@)]
  IN  IF ret < 0 THEN Fail("FtdiContextException", x1) ELSE Done(ret, x1)

\* FtdiContext.readData: __assertFtdi raises for ret < 0
readData(x, length) ==
  LET got == Head(x.r)
      x1  == [x EXCEPT !.trace = Append(@, Ev("read", got.d, length)),
                       !.r = Tail(@)]
  IN  IF got.ret < 0 THEN Fail("FtdiContextException", x1) ELSE Done(got.d, x1)

\* FtdiContext.__init__: new is the handle ftdi.new() returns (0 on
\* failure), rets the results of usb_open, setflowctrl, set_bitmode,
\* set_baudrate and set_line_property.  Line 30 formats the text of
\* ftdi.get_error_string with %d, a TypeError.
FtdiContextInit(new, rets) ==
  IF new = 0 THEN Raise("TypeError")
  ELSE IF \E k \in 1..Len(rets) : rets[k] < 0 THEN Raise("FtdiContextException")
  ELSE Return("FtdiContext")

\* FtdiContext.endConnection: ret is the result of ftdi.usb_close
endConnection(ret) ==
  IF ret < 0 THEN Raise("FtdiContextException") ELSE Return("None")

\* Messenger.sendShort
sendShort(x, receptorHeadNumber, command, parameter) ==
  Then(Pure(messageEncodeShort(receptorHeadNumber, command, parameter), x),
       LAMBDA encoded, x1 :
    Then(writeData(x1, encoded), LAMBDA ret, x2 : Done("None", x2)))

\* Messenger.receiveShort
receiveShort(x) ==
  Then(readData(x, messageLengthShort), LAMBDA encoded, x1 :
    Then(Pure(messageDecodeShort(encoded), x1), LAMBDA decoded, x2 :
      Then(Pure(checkStatus(decoded), x2), LAMBDA none, x3 :
        Done(decoded, x3))))

\* Messenger.receiveLong
receiveLong(x) ==
  Then(readData(x, messageLengthLong), LAMBDA encoded, x1 :
    Then(Pure(messageDecodeLong(encoded), x1), LAMBDA decoded, x2 :
      Then(Pure(checkStatus(decoded), x2), LAMBDA none, x3 :
        Done(decoded, x3))))

(***************************************************************************)
(* class Protocol                                                          *)
(***************************************************************************)
\* settle time of time.sleep(0.5), in tenths of a second
SettleTenths == 5

\* Protocol.switchToPcConnectionMode
switchToPcConnectionMode(x) ==
  Then(sendShort(x, PyStr(<< "0", "0" >>), << "5", "4" >>,
                 << "1", " ", " ", " " >>), LAMBDA none, x1 :
    Then(receiveShort(x1), LAMBDA responseActual, x2 :
      IF responseActual # << PyStr(<< "0", "0" >>), << "5", "4" >>,
                             << " ", " ", " ", " " >> >>
        THEN Fail("ProtocolException", x2)
        ELSE Done("None", sleep(x2, SettleTenths))))

\* rangeCode with the upper limit of the second band typed as 299.99
rangeCodeBand2Wide(range) ==
  IF range.kind = "auto" THEN Return("0")
  ELSE IF range.kind # "num" THEN Raise("ValueError")
  ELSE IF range.x100 >= 0 /\ range.x100 <= 2999 THEN Return("1")
  ELSE IF range.x100 > 2999 /\ range.x100 <= 29999 THEN Return("2")
  ELSE IF range.x100 > 29999 /\ range.x100 <= 299900 THEN Return("3")
  ELSE IF range.x100 > 299900 /\ range.x100 <= 2999900 THEN Return("4")
  ELSE IF range.x100 > 2999900 /\ range.x100 <= 29999900 THEN Return("5")
  ELSE Raise("ValueError")

\* the range code of readMeasurementData (lines 266-280); range is "auto",
\* a number (x100 is float(range) in hundredths), the float nan (kind
\* "nan"), or a value float() raises ValueError for (kind "text").  A
\* number no branch accepts, a negative one included, reaches the
\* ValueError of line 280, and so does nan, which fails every comparison.
rangeCode(range) ==
  IF range.kind = "auto" THEN Return("0")
  ELSE IF range.kind # "num" THEN Raise("ValueError")
  ELSE IF range.x100 >= 0 /\ range.x100 <= 2999 THEN Return("1")
  ELSE IF range.x100 > 2999 /\ range.x100 <= 29990 THEN Return("2")
  ELSE IF range.x100 > 29990 /\ range.x100 <= 299900 THEN Return("3")
  ELSE IF range.x100 > 299900 /\ range.x100 <= 2999900 THEN Return("4")
  ELSE IF range.x100 > 2999900 /\ range.x100 <= 29999900 THEN Return("5")
  ELSE Raise("ValueError")

\* f"{receptorHeadNumber:02d}": the format code d is a ValueError for a str
FString02d(receptorHeadNumber) ==
  IF receptorHeadNumber.t # "int" THEN Raise("ValueError")
  ELSE Return(PyStr(Format02d(receptorHeadNumber.i)))

\* open(f"Receptor{receptorHeadNumber:02d}_data.csv", "a") and f.write of
\* the three readings
appendRow(x, receptorHeadNumber, receivedData) ==
  [x EXCEPT !.trace = Append(@, Ev("csv", receivedData, receptorHeadNumber.i))]

\* the for loop of readMeasurementData over the heads not yet addressed
RECURSIVE readLoop(_, _, _)
readLoop(x, receptorHeadNumbers, parameter) ==
  IF receptorHeadNumbers = << >> THEN Done("None", x)
  ELSE
    Then(Pure(FString02d(Head(receptorHeadNumbers)), x), LAMBDA formatted, x1 :
      Then(sendShort(x1, formatted, << "1", "0" >>, parameter), LAMBDA none, x2 :
        Then(receiveLong(x2), LAMBDA receivedMessage, x3 :
          IF receivedMessage[1] = Head(receptorHeadNumbers)
            THEN readLoop(appendRow(x3, Head(receptorHeadNumbers),
                                    receivedMessage[4]),
                          Tail(receptorHeadNumbers), parameter)
            ELSE Fail("ProtocolException", x3))))

\* Protocol.readMeasurementData.  receptorHeadNumbers is [iterable, items]:
\* a tuple of heads, or (iterable FALSE) a bare int such as main's (0),
\* over which the for statement raises TypeError.
readMeasurementData(x, receptorHeadNumbers, hold, ccf, range) ==
  Then(Pure(rangeCode(range), x), LAMBDA code, x1 :
    IF ~receptorHeadNumbers.iterable THEN Fail("TypeError", x1)
    ELSE Then(readLoop(x1, receptorHeadNumbers.items,
                       << IF hold THEN "1" ELSE "0", IF ccf THEN "2" ELSE "3",
                          code, "0" >>),
              LAMBDA none, x2 : Done("None", sleep(x2, SettleTenths))))

\* Protocol.setHoldStatus
setHoldStatus(x, hold) ==
  Then(sendShort(x, PyStr(<< "9", "9" >>), << "5", "5" >>,
                 << IF hold THEN "1" ELSE "0", " ", " ", "0" >>),
       LAMBDA none, x1 : Done("None", sleep(x1, SettleTenths)))

\* Protocol.clearPastIntegratedData
clearPastIntegratedData(x, receptorHeadNumber) ==
  Then(Pure(FString02d(receptorHeadNumber), x), LAMBDA formatted, x1 :
    sendShort(x1, formatted, << "2", "8" >>, << " ", " ", " ", " " >>))

(***************************************************************************)
(* State.                                                                  *)
(*   call    the call in progress or last made: [op, ...arguments]         *)
(*   result  "pending" while the call has not run, then its outcome        *)
(*   ftdic   the FtdiContext the caller holds: "None", "open" or "closed"  *)
(*   trace   the effects on the current connection, oldest first           *)
(*   mode    where the caller's session stands: "Disconnected" before      *)
(*           FtdiContext() returns and after endConnection, "RawMode" on   *)
(*           an open connection, "RemoteMode" once                         *)
(*           switchToPcConnectionMode has returned on it                   *)
(*   ops, conns  calls made on this connection, connections opened         *)
(*   pc      where main stands: "loop" at the head of the while loop,      *)
(*           "except" and "finally" at those clauses, "raised" when an     *)
(*           exception has left main; "caller" when another caller than    *)
(*           main drives the classes                                       *)
(***************************************************************************)
VARIABLES call, result, ftdic, trace, mode, ops, conns, pc

vars == << call, result, ftdic, trace, mode, ops, conns, pc >>

Pending == [exc |-> "pending", val |-> << >>]

(***************************************************************************)
(* Frames the device can put on the line.  The device computes the BCC as  *)
(* the protocol defines it, which is what the body of computeBcc does.     *)
(***************************************************************************)
DeviceBcc(span) == computeBccBody(span).val

DeviceShort(head, command, parameter) ==
  << "STX" >> \o head \o command \o parameter \o << "ETX" >>
     \o DeviceBcc(head \o command \o parameter \o << "ETX" >>) \o << "CR", "LF" >>

DeviceLong(head, command, status, data1, data2, data3) ==
  << "STX" >> \o head \o command \o status \o data1 \o data2 \o data3
     \o << "ETX" >>
     \o DeviceBcc(head \o command \o status \o data1 \o data2 \o data3
                    \o << "ETX" >>)
     \o << "CR", "LF" >>

\* frame with its two checksum characters (just before CR LF) replaced
WithBcc(frame, bcc) ==
  SubSeq(frame, 1, Len(frame) - 4) \o bcc \o << "CR", "LF" >>

BccOf(frame) == SubSeq(frame, Len(frame) - 3, Len(frame) - 2)

(***************************************************************************)
(* Bounded inputs of the direct calls of Messenger's methods               *)
(***************************************************************************)
\* heads 0..MaxHead are passed to messageEncodeShort
MaxHead == 99

HeadTexts == { << "0", "0" >>, << "0", "1" >>, << "9", "9" >> }

Commands == { << "5", "4" >>, << "1", "0" >>, << "5", "5" >>, << "2", "8" >> }

Parameters ==
  { << " ", " ", " ", " " >>, << "1", " ", " ", " " >>, << "0", "3", "0", "0" >>,
    << "1", " ", " ", "0" >>, << " ", "5", " ", "1" >> }

\* heads outside 0..99 and parameters that are not 4 characters long
BadHeads == { -1, 100, 123 }

BadParameters ==
  { << >>, << "1", " ", " " >>, << "1", " ", " ", " ", "0" >> }

\* characters a corrupted checksum position may hold
BccChars == {"0", "1", "3", "7", "a", "A", "d", "D", " ", "+", "-"}

\* characters of the status positions that checkStatus reads
StatusChars == {" ", "0", "1", "2", "3", "4", "5", "6", "7", "8", "9", "a"}

\* characters of the status positions that checkStatus does not read
OtherChars == {" ", "1"}

StatusWords ==
  { << a, b, c, d >> : a \in OtherChars, b \in StatusChars,
                       c \in OtherChars, d \in StatusChars }

DataFields ==
  { SixSpaces, << " ", "1", "2", "3", "4", "2" >>,
    << "-", "0", "0", "5", "0", "4" >> }

GoodShortFrames ==
  { DeviceShort(h, c, p) : h \in HeadTexts, c \in Commands, p \in Parameters }

GoodLongFrames ==
  { DeviceLong(h, << "1", "0" >>, << " ", e, " ", b >>, d, SixSpaces, SixSpaces) :
      h \in HeadTexts, e \in {" ", "7", "5", "1", "9"}, b \in {"0", "1", "9"},
      d \in DataFields }

\* every frame of fs, and every frame of fs with its checksum characters
\* replaced by two characters of BccChars
Corruptions(fs) ==
  { WithBcc(f, << a, b >>) : f \in fs, a \in BccChars, b \in BccChars }

\* frames of fs cut short, as a partial read leaves them, and frames of fs
\* with one more character
WrongLengths(fs) ==
  UNION { { SubSeq(f, 1, n) : n \in {0, 5, 11, Len(f) - 1} } : f \in fs }
  \cup { f \o << c >> : f \in fs, c \in {"0", "LF"} }

ShortInputs ==
  GoodShortFrames \cup Corruptions(GoodShortFrames)
    \cup WrongLengths(GoodShortFrames)

LongInputs ==
  GoodLongFrames \cup Corruptions(GoodLongFrames)
    \cup WrongLengths(GoodLongFrames)

\* spans handed to computeBcc: the spans of the short and long frames, and
\* every span of one or two characters
SpanChars ==
  Controls \cup Digits \cup HexLower \cup HexUpper \cup {" ", "+", "-"}

BccSpans ==
  { SubSeq(f, 2, 10) : f \in GoodShortFrames }
  \cup { SubSeq(f, 2, 28) : f \in GoodLongFrames }
  \cup { << a >> : a \in SpanChars }
  \cup { << a, b >> : a \in SpanChars, b \in SpanChars }

\* range arguments: "auto", numbers (in hundredths of a lux) at and around
\* the limits of the bands, and a text that is no number
RangeNumbers ==
  { -100, -1, 0, 1, 2998, 2999, 3000, 15000, 29989, 29990, 29991, 29995,
    30000, 299899, 299900, 299901, 2999899, 2999900, 2999901, 29999899,
    29999900, 29999901, 30000000 }

RangeInputs ==
  { [kind |-> "auto", x100 |-> 0], [kind |-> "text", x100 |-> 0],
    [kind |-> "nan", x100 |-> 0] }
  \cup { [kind |-> "num", x100 |-> n] : n \in RangeNumbers }

\* six-character data fields sign(1) digits(4) exponent(1)
SignChars == {" ", "+", "-", "1"}

DigitChars == {" ", "-", "0", "1", "9", "a"}

ExponentChars == {" ", "a", "0", "2", "4", "9"}

FieldInputs ==
  { << sg, d1, d2, d3, d4, ex >> :
      sg \in SignChars, d1 \in DigitChars, d2 \in DigitChars,
      d3 \in DigitChars, d4 \in DigitChars, ex \in ExponentChars }

(***************************************************************************)
(* SpecMessenger: a caller applies one method of a Messenger to an input.  *)
(***************************************************************************)
InitMessenger ==
  /\ \/ \E h \in (0..MaxHead) \cup BadHeads, c \in Commands,
             p \in Parameters \cup BadParameters :
          call = [op |-> "messageEncodeShort", receptorHead |-> PyInt(h),
                  command |-> c, parameter |-> p]
     \/ \E i \in ShortInputs : call = [op |-> "messageDecodeShort", i |-> i]
     \/ \E i \in LongInputs : call = [op |-> "messageDecodeLong", i |-> i]
     \/ \E h \in 0..MaxHead, c \in Commands, s \in StatusWords :
          /\ h \in {0, 1, MaxHead}
          /\ call = [op |-> "checkStatus", decoded |-> << PyInt(h), c, s >>]
     \/ \E i \in BccSpans : call = [op |-> "computeBcc", i |-> i]
     \/ \E r \in RangeInputs : call = [op |-> "rangeCode", range |-> r]
     \/ \E i \in FieldInputs : call = [op |-> "dataToNumber", i |-> i]
  /\ result = Pending
  /\ ftdic = "None"
  /\ trace = << >>
  /\ mode = "Disconnected"
  /\ ops = 0
  /\ conns = 0
  /\ pc = "caller"

Apply(r) ==
  /\ result = Pending
  /\ result' = r
  /\ UNCHANGED << call, ftdic, trace, mode, ops, conns, pc >>

MessageEncodeShort ==
  /\ call.op = "messageEncodeShort"
  /\ Apply(messageEncodeShort(call.receptorHead, call.command, call.parameter))

MessageDecodeShort ==
  /\ call.op = "messageDecodeShort"
  /\ Apply(messageDecodeShort(call.i))

MessageDecodeLong ==
  /\ call.op = "messageDecodeLong"
  /\ Apply(messageDecodeLong(call.i))

CheckStatus ==
  /\ call.op = "checkStatus"
  /\ Apply(checkStatus(call.decoded))

\* Messenger.computeBcc(i), called on the class
ComputeBcc ==
  /\ call.op = "computeBcc"
  /\ Apply(computeBcc(<< call.i >>))

\* lines 266-280 of Protocol.readMeasurementData
RangeCode ==
  /\ call.op = "rangeCode"
  /\ Apply(rangeCode(call.range))

\* dataToNumber of messageDecodeLong on one data field
DataToNumber ==
  /\ call.op = "dataToNumber"
  /\ Apply(dataToNumber(call.i))

NextMessenger ==
  \/ MessageEncodeShort
  \/ MessageDecodeShort
  \/ MessageDecodeLong
  \/ CheckStatus
  \/ ComputeBcc
  \/ RangeCode
  \/ DataToNumber

SpecMessenger == InitMessenger /\ [][NextMessenger]_vars

(***************************************************************************)
(* Claims about the methods of Messenger, under SpecMessenger              *)
(***************************************************************************)
Applied(op) == call.op = op /\ result # Pending

\* the checksum characters of frame i are not the BCC of its span
\* i[1:Len-4]: the frame is a well-formed one with its checksum altered
ChecksumAltered(i) == BccOf(i) # DeviceBcc(SubSeq(i, 2, Len(i) - 4))

\* C6: decoding the frame messageEncodeShort returns for a head in 0..99, a
\* two-character command and a four-character parameter gives back exactly
\* (head, command, parameter), the head as an integer.
C6_RoundTrip ==
  (/\ Applied("messageEncodeShort")
   /\ call.receptorHead.i \in 0..99
   /\ Len(call.parameter) = 4)
    => /\ result.exc = "none"
       /\ messageDecodeShort(result.val)
            = Return(<< call.receptorHead, call.command, call.parameter >>)

\* C7: decoding a well-formed short or long frame whose checksum characters
\* were changed fails with the checksum error (BCCException).
C7_AlteredChecksumIsChecksumError ==
  (/\ \/ Applied("messageDecodeShort") /\ Len(call.i) = messageLengthShort
      \/ Applied("messageDecodeLong") /\ Len(call.i) = messageLengthLong
   /\ ChecksumAltered(call.i))
    => result.exc = "BCCException"

ErrorCodes == {" ", "7", "5", "1", "2", "3"}

BatteryCodes == {"0", "1", "2", "3"}

InEnumeration(status) == status[2] \in ErrorCodes /\ status[4] \in BatteryCodes

\* C8: a status word whose error position or battery position is outside
\* the enumeration is never classified as a success: checkStatus raises.
C8_UnknownStatusRaises ==
  (Applied("checkStatus") /\ ~InEnumeration(call.decoded[3]))
    => result.exc # "none"

\* the outcome the status table of the specification gives a status word
\* of the enumeration: OverRange is the ValueError of line 197
TableOutcome(status) ==
  CASE status[2] = "5" -> "ValueError"
    [] status[2] = "1" -> "PowerOffError"
    [] status[2] \in {"2", "3"} -> "EEPROMError"
    [] status[2] \in {" ", "7"} /\ status[4] \in {"1", "3"} -> "LowBatteryError"
    [] status[2] \in {" ", "7"} /\ status[4] \in {"0", "2"} -> "none"

\* C10: for every status word inside the enumeration checkStatus gives the
\* outcome of the table: error position space or 7 is Ok, 5 OverRange, 1
\* PowerHeadOff, 2 or 3 EepromFault, and with an Ok error position
\* LowBattery is raised exactly for battery position 1 or 3.
C10_StatusTable ==
  (Applied("checkStatus") /\ InEnumeration(call.decoded[3]))
    => result.exc = TableOutcome(call.decoded[3])

C10_Witness ==
  /\ Applied("checkStatus")
  /\ call.decoded[3] = << " ", "7", " ", "3" >>
  /\ result.exc = "LowBatteryError"

\* upper limits of the five bands, in hundredths of a lux, and their codes
BandLimits == << 2999, 29990, 299900, 2999900, 29999900 >>

BandCodes == << "1", "2", "3", "4", "5" >>

\* the lowest band whose upper limit n does not exceed
Band(n) == CHOOSE k \in 1..5 : n <= BandLimits[k] /\ \A j \in 1..(k - 1) : n > BandLimits[j]

\* C11 as the specification words it: "auto" gets a code that is no
\* band's, every number up to 299999 the code of the lowest band whose
\* upper limit it does not exceed, and exactly the numbers above 299999
\* fail with the range error.
C11_RangeCodeOfBandOnly ==
  Applied("rangeCode") =>
    CASE call.range.kind = "auto" ->
           result.exc = "none" /\ \A k \in 1..5 : result.val # BandCodes[k]
      [] call.range.kind = "num" /\ call.range.x100 <= BandLimits[5] ->
           result = Return(BandCodes[Band(call.range.x100)])
      [] call.range.kind = "num" /\ call.range.x100 > BandLimits[5] ->
           result.exc = "ValueError"
      [] OTHER -> TRUE

\* C11: the range code is a function of the band only.  "auto" gets a code
\* that is no band's; every number from 0 to 299999 gets the code of the
\* lowest band whose upper limit it does not exceed, the five codes being
\* distinct; the numbers below 0, the numbers above 299999 and nan fail
\* with the range error (the ValueError of line 280).
C11_RangeCodeOfBandFromZero ==
  Applied("rangeCode") =>
    CASE call.range.kind = "auto" ->
           result.exc = "none" /\ \A k \in 1..5 : result.val # BandCodes[k]
      [] call.range.kind = "num" /\ call.range.x100 >= 0
           /\ call.range.x100 <= BandLimits[5] ->
           /\ result = Return(BandCodes[Band(call.range.x100)])
           /\ \A j, k \in 1..5 : BandCodes[j] = BandCodes[k] => j = k
      [] call.range.kind = "num"
           /\ (call.range.x100 < 0 \/ call.range.x100 > BandLimits[5]) ->
           result.exc = "ValueError"
      [] call.range.kind = "nan" -> result.exc = "ValueError"
      [] OTHER -> TRUE

C11_Witness ==
  /\ Applied("rangeCode")
  /\ call.range = [kind |-> "num", x100 |-> 29995]
  /\ result = Return("3")

\* bit b of the exclusive or of the character codes of span i: 1 when an
\* odd number of them have bit b set
XorBit(i, b) ==
  Cardinality({ k \in 1..Len(i) : (Ord(i[k]) \div (2 ^ b)) % 2 = 1 }) % 2

XorAll(i) ==
  XorBit(i, 0) + (2 * XorBit(i, 1)) + (4 * XorBit(i, 2)) + (8 * XorBit(i, 3))
    + (16 * XorBit(i, 4)) + (32 * XorBit(i, 5)) + (64 * XorBit(i, 6))
    + (128 * XorBit(i, 7))

\* C17: for a non-empty span computeBcc returns exactly two lowercase hex
\* digits whose value is the exclusive or of all the bytes of the span, and
\* the span with any one byte replaced by a different byte has a different
\* checksum.
C17_BccIsXorInTwoHexDigits ==
  (Applied("computeBcc") /\ call.i # << >>) =>
    /\ result.exc = "none"
    /\ Len(result.val) = 2
    /\ \A k \in 1..2 : result.val[k] \in Digits \cup HexLower
    /\ (16 * DigitVal(result.val[1], 16)) + DigitVal(result.val[2], 16)
         = XorAll(call.i)
    /\ \A k \in 1..Len(call.i), c \in SpanChars :
         c # call.i[k] => computeBcc(<< [call.i EXCEPT ![k] = c] >>) # result

C17_Witness ==
  /\ Applied("computeBcc")
  /\ call.i = << "0", "1", "5", "4", "1", " ", " ", " ", "ETX" >>
  /\ result = Return(<< "1", "2" >>)

\* C16: messageDecodeShort accepts only inputs of exactly 14 characters and
\* messageDecodeLong only inputs of exactly 32: for an input of any other
\* length, shorter or longer, the decode fails with the format error
\* (ValueError) and returns no result.
C16_WrongLengthIsFormatError ==
  (\/ Applied("messageDecodeShort") /\ Len(call.i) # messageLengthShort
   \/ Applied("messageDecodeLong") /\ Len(call.i) # messageLengthLong)
    => result.exc = "ValueError"

\* C15: messageEncodeShort fails with the format error (ValueError) when
\* the parameter is not exactly 4 characters long or the head is outside
\* 0..99, and in every other case returns a frame of exactly 14 characters.
C15_EncodeValidatesAndIs14Bytes ==
  Applied("messageEncodeShort") =>
    IF Len(call.parameter) # 4 \/ call.receptorHead.i \notin 0..99
      THEN result.exc = "ValueError"
      ELSE result.exc = "none" /\ Len(result.val) = messageLengthShort

\* C14: dataToNumber is total over six-character fields: six spaces give
\* None; a field whose four digit characters and exponent character are
\* all decimal digits gives digits * 10^(exponent - 4), negated exactly
\* when the sign character is "-"; every other field, a space in a digit
\* position included, fails with the format error (ValueError).
C14_DecoderTotal ==
  Applied("dataToNumber") =>
    LET i == call.i
    IN  IF i = SixSpaces THEN result = Return(NoReading)
        ELSE IF \A k \in 2..6 : i[k] \in Digits
          THEN LET v == DigitsValue(SubSeq(i, 2, 5), 10, 0)
               IN  result = Return(Reading(IF i[1] = "-" THEN 0 - v ELSE v,
                                           DigitVal(i[6], 10) - 4))
          ELSE result.exc = "ValueError"

(***************************************************************************)
(* Spec: a caller drives one Protocol over the connections it opens.       *)
(* Every operation is one action; Resume is the caller taking the result   *)
(* of the call before it makes the next one.  A call record keeps, beside  *)
(* the arguments, the session state the call started in (mode), the length *)
(* of the trace then (at) and the transport's part in its exchanges (env). *)
(***************************************************************************)
\* calls per connection, connections, heads per readMeasurementData call
MaxOps == 2

MaxConns == 2

MaxHeads == 2

\* the largest head passed as an argument
MaxHeadArg == 1

NoCall == [op |-> "none"]

TransportError == [ret |-> -1, d |-> << >>]

Received(d) == [ret |-> Len(d), d |-> d]

Spaces4 == << " ", " ", " ", " " >>

StatusOk == << " ", " ", " ", "0" >>

StatusLowBattery == << " ", " ", " ", "1" >>

StatusPowerOff == << " ", "1", " ", "0" >>

\* the echo the T-10A sends for the mode switch: head 00, command 54, an
\* empty parameter
ModeSwitchEcho == DeviceShort(<< "0", "0" >>, << "5", "4" >>, Spaces4)

\* the long frame of head h with status word s and one reading (12.34)
LongReply(h, s) ==
  DeviceLong(Format02d(h), << "1", "0" >>, s,
             << " ", "1", "2", "3", "4", "2" >>, SixSpaces, SixSpaces)

\* what the device may answer to the mode switch
ShortReplies ==
  { Received(DeviceShort(h, c, p)) :
      h \in { << "0", "0" >>, << "0", "1" >> },
      c \in { << "5", "4" >>, << "1", "0" >> },
      p \in { Spaces4, << "1", " ", " ", " " >> } }
  \cup { Received(WithBcc(ModeSwitchEcho, << "7", "7" >>)), TransportError }

\* what the device may answer to a read/configure frame
LongReplies ==
  { Received(LongReply(h, s)) :
      h \in 0..MaxHeadArg, s \in { StatusOk, StatusLowBattery, StatusPowerOff } }
  \cup { Received(WithBcc(LongReply(0, StatusOk), << "7", "7" >>)),
         TransportError }

\* the transport's part in one exchange: the result of ftdi.write_data and,
\* when the write succeeds, that of ftdi.read_data
Exchanges(replies) ==
  { [w |-> -1, r |-> TransportError] }
  \cup { [w |-> messageLengthShort, r |-> rr] : rr \in replies }

\* the transport's part in a call that only writes
Writes == { << [w |-> w, r |-> TransportError] >> : w \in {-1, messageLengthShort} }

\* the execution state of a call that starts with the trace so far and
\* meets the exchanges env
Exec(env) ==
  [trace |-> trace,
   w     |-> [k \in 1..Len(env) |-> env[k].w],
   r     |-> [k \in 1..Len(env) |-> env[k].r]]

HeadTuples ==
  UNION { [1..n -> { PyInt(h) : h \in 0..MaxHeadArg }] : n \in 0..MaxHeads }

\* the receptorHeadNumbers arguments: tuples of heads, and the bare int of
\* main's receptors = (0)
HeadArgs ==
  { [iterable |-> TRUE, items |-> t] : t \in HeadTuples }
  \cup { [iterable |-> FALSE, items |-> << PyInt(0) >>] }

Ranges ==
  { [kind |-> "auto", x100 |-> 0], [kind |-> "num", x100 |-> 15000],
    [kind |-> "num", x100 |-> 30000000] }

Init ==
  /\ call = NoCall
  /\ result = Return("None")
  /\ ftdic = "None"
  /\ trace = << >>
  /\ mode = "Disconnected"
  /\ ops = 0
  /\ conns = 0
  /\ pc = "caller"

Idle == call.op = "none"

CanCall == Idle /\ ftdic = "open" /\ ops < MaxOps

\* the caller makes the call named op with arguments args, which meets env
\* and ends as out = [exc, val, x]
Called(op, args, env, out) ==
  /\ call' = [op |-> op, args |-> args, env |-> env, mode |-> mode,
              at |-> Len(trace)]
  /\ result' = [exc |-> out.exc, val |-> out.val]
  /\ trace' = out.x.trace
  /\ ops' = ops + 1
  /\ UNCHANGED << ftdic, conns, pc >>

\* FtdiContext(), Messenger(Ftdic), Protocol(messenger)
Open ==
  /\ Idle
  /\ ftdic # "open"
  /\ conns < MaxConns
  /\ \E new \in {0, 1}, rets \in [1..5 -> {-1, 0}] :
       /\ call' = [op |-> "FtdiContext", args |-> << >>,
                   env |-> << new, rets >>, mode |-> mode, at |-> Len(trace)]
       /\ result' = FtdiContextInit(new, rets)
       /\ conns' = conns + 1
       /\ UNCHANGED pc
       /\ IF result'.exc = "none"
            THEN ftdic' = "open" /\ trace' = << >> /\ mode' = "RawMode"
                 /\ ops' = 0
            ELSE UNCHANGED << ftdic, trace, mode, ops >>

SwitchToPcConnectionMode ==
  /\ CanCall
  /\ \E e \in Exchanges(ShortReplies) :
       /\ Called("switchToPcConnectionMode", << >>, << e >>,
                 switchToPcConnectionMode(Exec(<< e >>)))
       /\ mode' = IF result'.exc = "none" THEN "RemoteMode" ELSE mode

ReadMeasurementData ==
  /\ CanCall
  /\ \E heads \in HeadArgs, hold \in BOOLEAN, ccf \in BOOLEAN, range \in Ranges :
       \E env \in [1..Len(heads.items) -> Exchanges(LongReplies)] :
         /\ Called("readMeasurementData", << heads, hold, ccf, range >>, env,
                   readMeasurementData(Exec(env), heads, hold, ccf, range))
         /\ UNCHANGED mode

SetHoldStatus ==
  /\ CanCall
  /\ \E hold \in BOOLEAN, env \in Writes :
       /\ Called("setHoldStatus", << hold >>, env,
                 setHoldStatus(Exec(env), hold))
       /\ UNCHANGED mode

ClearPastIntegratedData ==
  /\ CanCall
  /\ \E h \in 0..MaxHeadArg, env \in Writes :
       /\ Called("clearPastIntegratedData", << PyInt(h) >>, env,
                 clearPastIntegratedData(Exec(env), PyInt(h)))
       /\ UNCHANGED mode

\* Ftdic.endConnection(): a close that fails leaves the device open
EndConnection ==
  /\ Idle
  /\ ftdic = "open"
  /\ \E ret \in {-1, 0} :
       /\ call' = [op |-> "endConnection", args |-> << >>, env |-> << ret >>,
                   mode |-> mode, at |-> Len(trace)]
       /\ result' = endConnection(ret)
       /\ ftdic' = IF result'.exc = "none" THEN "closed" ELSE ftdic
       /\ mode' = IF result'.exc = "none" THEN "Disconnected" ELSE mode
       /\ UNCHANGED << trace, ops, conns, pc >>

\* the caller has dealt with the result and is ready for its next call
Resume ==
  /\ ~Idle
  /\ call' = NoCall
  /\ result' = Return("None")
  /\ UNCHANGED << ftdic, trace, mode, ops, conns, pc >>

Next ==
  \/ Open
  \/ SwitchToPcConnectionMode
  \/ ReadMeasurementData
  \/ SetHoldStatus
  \/ ClearPastIntegratedData
  \/ EndConnection
  \/ Resume

Spec == Init /\ [][Next]_vars

(***************************************************************************)
(* Claims about the operations of Protocol, under Spec                     *)
(***************************************************************************)
\* the effects of the last call
CallEvents == SubSeq(trace, call.at + 1, Len(trace))

\* its traffic: the frames handed to ftdi.write_data and the reads
CallTraffic == SelectSeq(CallEvents, LAMBDA ev : ev.kind \in {"write", "read"})

\* the transport carried exchange e through: the frame was written and a
\* reply of the asked length came back
Answered(e) == e.w >= 0 /\ e.r.ret >= 0

\* No operation hands a frame to the transport, or reads from it: every
\* sendShort of Protocol passes the head as a str, which line 102 cannot
\* format, and line 103 calls computeBcc with one argument too many.
NoFrameHandedToTransport ==
  \A k \in 1..Len(trace) : trace[k].kind \notin {"write", "read"}

\* C1: switchToPcConnectionMode started in RawMode returns and leaves the
\* session in RemoteMode exactly when the reply is the checksum-valid short
\* frame echoing head 00 and command 54 with a parameter of four spaces;
\* on every other checksum-valid short reply it raises ProtocolException
\* and the session stays in RawMode.
C1_EchoDecidesRemoteMode ==
  (/\ call.op = "switchToPcConnectionMode"
   /\ call.mode = "RawMode"
   /\ Answered(call.env[1])
   /\ ~ChecksumAltered(call.env[1].r.d))
    => IF call.env[1].r.d = ModeSwitchEcho
         THEN result.exc = "none" /\ mode = "RemoteMode"
         ELSE result.exc = "ProtocolException" /\ mode = "RawMode"

\* a readMeasurementData call whose arguments let the loop over the heads
\* start: a tuple of heads and a range inside the bands
ReadCall ==
  /\ call.op = "readMeasurementData"
  /\ call.args[1].iterable
  /\ rangeCode(call.args[4]).exc = "none"

\* exchange e brings the Ok long reply of head h
GoodFor(h, e) == Answered(e) /\ e.r.d = LongReply(h.i, StatusOk)

\* exchange e brings an Ok long reply that echoes another head than h
EchoesOther(h, e) ==
  /\ Answered(e)
  /\ \E g \in 0..MaxHeadArg : g # h.i /\ e.r.d = LongReply(g, StatusOk)

C9_LowBatteryCompletes ==
  (/\ ReadCall
   /\ Len(call.args[1].items) = 1
   /\ Answered(call.env[1])
   /\ call.env[1].r.d = LongReply(call.args[1].items[1].i, StatusLowBattery))
    => result.exc = "none"

\* No row is ever appended to a log: appendRow stands behind sendShort and
\* receiveLong in the loop of readMeasurementData, and sendShort raises.
NoRowAppended == \A k \in 1..Len(trace) : trace[k].kind # "csv"

\* the frames the last call handed to ftdi.write_data
CallWrites == SelectSeq(CallEvents, LAMBDA ev : ev.kind = "write")

\* the heads of a readMeasurementData call that its loop reaches: the first,
\* and each one after a head whose exchange brought the Ok reply of that head
HeadsReached ==
  { k \in 1..Len(call.args[1].items) :
      \A j \in 1..(k - 1) : GoodFor(call.args[1].items[j], call.env[j]) }

\* the exchange of a reached head went wrong: the transport failed, or the
\* reply was not the Ok reply of the head addressed
ExchangeFailed ==
  \E k \in HeadsReached : ~GoodFor(call.args[1].items[k], call.env[k])

\* C13: no exchange is retried.  A call of switchToPcConnectionMode,
\* setHoldStatus or clearPastIntegratedData hands at most one frame to the
\* transport; readMeasurementData hands over exactly one frame per head its
\* loop reaches, none after an exchange that went wrong, and then ends with
\* the exception.
C13_NoRetry ==
  /\ call.op \in {"switchToPcConnectionMode", "setHoldStatus",
                   "clearPastIntegratedData"} => Len(CallWrites) <= 1
  /\ ReadCall => /\ Len(CallWrites) = Cardinality(HeadsReached)
                 /\ ExchangeFailed => result.exc # "none"

(***************************************************************************)
(* SpecMain: main() runs its loop.  MainTry is the body of the try          *)
(* statement, MainExcept the except clause and MainFinally the finally     *)
(* clause.  trace also records the ftdi.usb_open and ftdi.usb_close calls  *)
(* that succeed or fail (n is the value returned).                         *)
(***************************************************************************)
\* time.sleep(3) and time.sleep(15), in tenths of a second
MeasureWaitTenths == 30

RetryWaitTenths == 150

\* receptors = (0): an int, not a tuple
receptors == [iterable |-> FALSE, items |-> << PyInt(0) >>]

auto == [kind |-> "auto", x100 |-> 0]

\* lines 330-335, on the connection in state x
mainSession(x) ==
  Then(switchToPcConnectionMode(x), LAMBDA none1, x1 :
    Then(readMeasurementData(x1, receptors, FALSE, FALSE, auto),
         LAMBDA none2, x2 :
      readMeasurementData(sleep(x2, MeasureWaitTenths), receptors, FALSE,
                          FALSE, auto)))

\* lines 325-335: FtdiContext() and, when it returns, the session.  new and
\* rets are what ftdi.new and the five set-up calls return; usb_open is
\* the first of them and is reached when ftdi.new succeeded.
mainTry(x, new, rets) ==
  Then(Pure(FtdiContextInit(new, rets),
            IF new # 0
              THEN [x EXCEPT !.trace = Append(@, Ev("usb_open", << >>, rets[1]))]
              ELSE x),
       LAMBDA Ftdic, x1 : mainSession(x1))

InitMain ==
  /\ call = [op |-> "main", env |-> << >>]
  /\ result = Return("None")
  /\ ftdic = "None"
  /\ trace = << >>
  /\ mode = "Disconnected"
  /\ ops = 0
  /\ conns = 0
  /\ pc = "loop"

\* Ftdic = None and the try body (lines 323-335)
MainTry ==
  /\ pc = "loop"
  /\ conns < MaxConns
  /\ \E new \in {0, 1}, rets \in [1..5 -> {-1, 0}],
        e \in Exchanges(ShortReplies) :
       /\ call' = [op |-> "main", env |-> << new, rets, e >>]
       /\ result' = [exc |-> mainTry(Exec(<< e >>), new, rets).exc,
                     val |-> mainTry(Exec(<< e >>), new, rets).val]
       /\ trace' = mainTry(Exec(<< e >>), new, rets).x.trace
       /\ ftdic' = IF FtdiContextInit(new, rets).exc = "none"
                     THEN "open" ELSE "None"
       /\ mode' = IF FtdiContextInit(new, rets).exc # "none"
                    THEN "Disconnected"
                    ELSE IF switchToPcConnectionMode(Exec(<< e >>)).exc = "none"
                      THEN "RemoteMode" ELSE "RawMode"
       /\ pc' = IF result'.exc = "none" THEN "finally" ELSE "except"
  /\ conns' = conns + 1
  /\ ops' = 0

\* except Exception as e: print(str(e), file=sys.stderr)
MainExcept ==
  /\ pc = "except"
  /\ pc' = "finally"
  /\ UNCHANGED << call, result, ftdic, trace, mode, ops, conns >>

\* finally: Ftdic.endConnection(); time.sleep(15).  Ftdic is still None
\* when FtdiContext() raised, and None has no endConnection: the
\* AttributeError, like an exception of endConnection, leaves main.
MainFinally ==
  /\ pc = "finally"
  /\ IF ftdic = "None"
       THEN /\ result' = Raise("AttributeError")
            /\ pc' = "raised"
            /\ UNCHANGED << ftdic, trace, mode >>
       ELSE \E ret \in {-1, 0} :
              /\ result' = IF endConnection(ret).exc = "none"
                             THEN result ELSE endConnection(ret)
              /\ trace' = IF endConnection(ret).exc = "none"
                            THEN sleep([trace |-> Append(trace,
                                          Ev("usb_close", << >>, ret))],
                                       RetryWaitTenths).trace
                            ELSE Append(trace, Ev("usb_close", << >>, ret))
              /\ ftdic' = IF endConnection(ret).exc = "none"
                            THEN "closed" ELSE ftdic
              /\ mode' = IF endConnection(ret).exc = "none"
                           THEN "Disconnected" ELSE mode
              /\ pc' = IF endConnection(ret).exc = "none"
                         THEN "loop" ELSE "raised"
  /\ UNCHANGED << call, ops, conns >>

NextMain ==
  \/ MainTry
  \/ MainExcept
  \/ MainFinally

SpecMain == InitMain /\ [][NextMain]_vars

\* the calls of ftdi.usb_open and of ftdi.usb_close that succeeded so far
Opened == SelectSeq(trace, LAMBDA ev : ev.kind = "usb_open" /\ ev.n >= 0)

Closed == SelectSeq(trace, LAMBDA ev : ev.kind = "usb_close" /\ ev.n >= 0)

\* C18: main's loop recovers from every error.  No exception leaves main,
\* whichever step of an iteration failed, the opening of the transport
\* included; when the loop is back at its head every transport that was
\* opened has been closed, once, and the last thing that happened was the
\* fixed wait.
C18_LoopRecovers ==
  /\ pc # "raised"
  /\ (pc = "loop" /\ conns > 0) =>
       /\ Len(Closed) = Len(Opened)
       /\ trace # << >>
       /\ trace[Len(trace)] = Ev("sleep", << >>, RetryWaitTenths)

=============================================================================
